---- MODULE Spec2Model ----
(***************************************************************************)
(* Model of extensions/game-audio/src/audio-tools.ts: the read-only        *)
(* search / read / check-event tools over configured root directories.     *)
(*                                                                         *)
(* Strings are sequences of tokens.  In path strings the token "/" is the  *)
(* separator and every other token is (part of) a path segment; in file    *)
(* contents "\n" and "\r" are the line-ending characters and every other   *)
(* token is one byte.  Absolute normalized paths are kept as the sequence  *)
(* of their segments (<<"ws","req","audio.md">> is /ws/req/audio.md).      *)
(* Numbers that the code only compares (maxHits, maxFileBytes, maxBytes)   *)
(* are JavaScript numbers, not integers: they are kept in halves, so 3     *)
(* stands for 1.5 and 4 for 2.                                             *)
(***************************************************************************)
EXTENDS Integers, Sequences, FiniteSets, TLC

\* ------------------------------------------------------------------ bounds

\* Longest chain of symbolic links one path resolution follows before the
\* operating system gives up (ELOOP).
MaxSymlinks == 2

\* ------------------------------------------------------------ token strings

Last(s) == s[Len(s)]

Front(s) == SubSeq(s, 1, Len(s) - 1)

Range(s) == {s[i] : i \in 1..Len(s)}

\* String.prototype.startsWith
StartsWith(s, p) == Len(p) <= Len(s) /\ SubSeq(s, 1, Len(p)) = p

\* String.prototype.includes: p occurs in s as a contiguous run
Includes(s, p) ==
  \E i \in 0..(Len(s) - Len(p)) : SubSeq(s, i + 1, i + Len(p)) = p

\* String.prototype.toLowerCase, per character
LowerChar(c) ==
  CASE c = "E" -> "e"
    [] c = "V" -> "v"
    [] c = "N" -> "n"
    [] OTHER -> c

ToLowerCase(s) == [i \in 1..Len(s) |-> LowerChar(s[i])]

\* String.prototype.trim: leading and trailing blanks are dropped
RECURSIVE TrimStart(_)
TrimStart(s) ==
  IF s # <<>> /\ Head(s) = " " THEN TrimStart(Tail(s)) ELSE s

RECURSIVE TrimEnd(_)
TrimEnd(s) ==
  IF s # <<>> /\ Last(s) = " " THEN TrimEnd(Front(s)) ELSE s

Trim(s) == TrimEnd(TrimStart(s))

\* The segment tokens that themselves contain the two characters "..".
DotDotTokens == {"..", "v1..2.md"}

\* rel.includes(".."): some token of the string contains ".."
IncludesDotDot(s) == \E i \in 1..Len(s) : s[i] \in DotDotTokens

\* ------------------------------------------------------------------ paths

\* The segments of a path string: split at "/", empty segments dropped.
RECURSIVE Segments(_)
Segments(s) ==
  IF s = <<>> THEN <<>>
  ELSE IF Head(s) = "/" THEN Segments(Tail(s))
  ELSE <<Head(s)>> \o Segments(Tail(s))

\* path.normalize of an absolute path given by its segments: "." is dropped
\* and ".." removes the segment before it (at the top it is dropped).
RECURSIVE NormalizeSegs(_, _)
NormalizeSegs(done, rest) ==
  IF rest = <<>> THEN done
  ELSE IF Head(rest) = "." THEN NormalizeSegs(done, Tail(rest))
  ELSE IF Head(rest) = ".."
    THEN NormalizeSegs(IF done = <<>> THEN <<>> ELSE Front(done), Tail(rest))
  ELSE NormalizeSegs(Append(done, Head(rest)), Tail(rest))

\* path.isAbsolute of a path string
IsAbsolute(s) == s # <<>> /\ Head(s) = "/"

\* path.join(base, s) followed by path.normalize, base an absolute path
JoinNormalize(base, s) == NormalizeSegs(base, Segments(s))

\* The path string of an absolute path: "/" before every segment.
RECURSIVE PathString(_)
PathString(p) ==
  IF p = <<>> THEN <<>> ELSE <<"/", Head(p)>> \o PathString(Tail(p))

\* Length of the longest common prefix of two segment sequences.
RECURSIVE CommonPrefixLen(_, _)
CommonPrefixLen(a, b) ==
  IF a = <<>> \/ b = <<>> \/ Head(a) # Head(b) THEN 0
  ELSE 1 + CommonPrefixLen(Tail(a), Tail(b))

\* path.relative(from, to): one ".." for every segment of `from` below the
\* common prefix, then the rest of `to`.
Relative(from, to) ==
  LET k == CommonPrefixLen(from, to)
  IN [i \in 1..(Len(from) - k) |-> ".."] \o SubSeq(to, k + 1, Len(to))

\* Only the relative path ".." itself taken as outside.
isWithinRootParentOnly(rootDir, candidatePath) ==
  Relative(rootDir, candidatePath) # <<"..">>

isWithinRoot(rootDir, candidatePath) ==
  LET rel == Relative(rootDir, candidatePath)
  IN IF rel = <<>> THEN TRUE
     ELSE IF Head(rel) = ".." THEN FALSE
     ELSE TRUE

\* The process's working directory and the configured workspace directory.
Cwd == <<"ws">>

\* No path of the model begins with "~", so expandHome returns its argument.
toAbsPath(inputPath, baseDir) ==
  LET expanded == Trim(inputPath)
  IN IF IsAbsolute(expanded) THEN NormalizeSegs(<<>>, Segments(expanded))
     ELSE JoinNormalize(baseDir, expanded)

\* ------------------------------------------------------------- file system

\* A node of the file system, stored under its real (symlink-free) path.
Dir(p, names) ==
  [path |-> p, type |-> "dir", names |-> names, readable |-> TRUE,
   target |-> <<>>, content |-> <<>>]

\* A directory the process may not list (readdir fails with EACCES).
LockedDir(p, names) ==
  [path |-> p, type |-> "dir", names |-> names, readable |-> FALSE,
   target |-> <<>>, content |-> <<>>]

File(p, content) ==
  [path |-> p, type |-> "file", names |-> <<>>, readable |-> TRUE,
   target |-> <<>>, content |-> content]

Link(p, target) ==
  [path |-> p, type |-> "link", names |-> <<>>, readable |-> TRUE,
   target |-> target, content |-> <<>>]

\* The trees the operations run on.  Three roots (requirements, Wwise,
\* Unity) under /ws and a directory /ws/outside that belongs to no root.
\* The Wwise root holds symbolic links: to a directory in the root, to a
\* file in the root, to a directory and to a file outside the root and,
\* when `loop`, to the root itself.
Tree(loop) ==
  { Dir(<<"ws">>, <<"req", "wwise", "unity", "outside">>),
    Dir(<<"ws", "req">>, <<"audio.md", "big.md", "v1..2.md">>),
    File(<<"ws", "req", "audio.md">>, <<"e", "v", "\n", "x", "y">>),
    File(<<"ws", "req", "big.md">>,
         <<"e", "v", "\n", "e", "v", "\n", "e", "v", "x", "x">>),
    File(<<"ws", "req", "v1..2.md">>, <<"E", "V", "\r", "\n", "e", "v">>),
    Dir(<<"ws", "wwise">>,
        <<"Events.wwu", "sub", "lnk", "out", "ext.md", "alias.wwu">>
          \o (IF loop THEN <<"self">> ELSE <<>>)),
    File(<<"ws", "wwise", "Events.wwu">>,
         <<"x", "N", "e", "v", "Q", "\n", "e", "v">>),
    Dir(<<"ws", "wwise", "sub">>, <<"deep.wwu">>),
    File(<<"ws", "wwise", "sub", "deep.wwu">>, <<"N", "e", "v", "Q">>),
    Link(<<"ws", "wwise", "lnk">>, <<"ws", "wwise", "sub">>),
    Link(<<"ws", "wwise", "out">>, <<"ws", "outside">>),
    Link(<<"ws", "wwise", "ext.md">>, <<"ws", "outside", "secret.md">>),
    Link(<<"ws", "wwise", "alias.wwu">>, <<"ws", "wwise", "Events.wwu">>),
    Dir(<<"ws", "unity">>, <<"Audio.CS", "Library", "img.png", "locked">>),
    File(<<"ws", "unity", "Audio.CS">>, <<"e", "v", "\n", "e", "v">>),
    Dir(<<"ws", "unity", "Library">>, <<"x.cs">>),
    File(<<"ws", "unity", "Library", "x.cs">>, <<"e", "v">>),
    File(<<"ws", "unity", "img.png">>, <<"e", "v">>),
    LockedDir(<<"ws", "unity", "locked">>, <<"hidden.cs">>),
    File(<<"ws", "unity", "locked", "hidden.cs">>, <<"e", "v">>),
    Dir(<<"ws", "outside">>, <<"secret.md">>),
    File(<<"ws", "outside", "secret.md">>, <<"e", "v", "\n", "x", "y">>) }
    \cup (IF loop THEN {Link(<<"ws", "wwise", "self">>, <<"ws", "wwise">>)}
          ELSE {})

\* path.extname of a path: the extension of its last segment.
ExtOfName(name) ==
  CASE name \in {"audio.md", "big.md", "v1..2.md", "secret.md", "ext.md"}
           -> ".md"
    [] name \in {"Events.wwu", "deep.wwu", "alias.wwu"} -> ".wwu"
    [] name = "Audio.CS" -> ".CS"
    [] name \in {"x.cs", "hidden.cs"} -> ".cs"
    [] name = "img.png" -> ".png"
    [] OTHER -> ""

Extname(p) == IF p = <<>> THEN "" ELSE ExtOfName(Last(p))

\* String.prototype.toLowerCase on an extension
LowerExt(e) ==
  CASE e = ".CS" -> ".cs"
    [] e = ".MD" -> ".md"
    [] OTHER -> e

HasNode(fs, p) == \E n \in fs : n.path = p

NodeAt(fs, p) == CHOOSE n \in fs : n.path = p

NoPath == [ok |-> FALSE, path |-> <<>>]

\* Path resolution as the operating system does it: segment by segment,
\* following every symbolic link, failing on a missing segment (ENOENT), on
\* a non-directory in the middle (ENOTDIR) and after more than MaxSymlinks
\* links (ELOOP).  `done` is the resolved prefix, `rest` what is left.
RECURSIVE Resolve(_, _, _, _)
Resolve(fs, done, rest, hops) ==
  IF rest = <<>> THEN [ok |-> TRUE, path |-> done]
  ELSE
    LET cand == Append(done, Head(rest))
    IN IF ~HasNode(fs, cand) THEN NoPath
       ELSE
         LET n == NodeAt(fs, cand)
         IN IF n.type = "link"
              THEN IF hops = 0 THEN NoPath
                   ELSE Resolve(fs, <<>>, n.target \o Tail(rest), hops - 1)
            ELSE IF Tail(rest) # <<>> /\ n.type # "dir" THEN NoPath
            ELSE Resolve(fs, cand, Tail(rest), hops)

\* fs.realpath(p): the resolved path, or a failure
Realpath(fs, p) == Resolve(fs, <<>>, p, MaxSymlinks)

\* fs.access(p) succeeds
Accessible(fs, p) == Realpath(fs, p).ok

\* fs.stat(p): follows links; type "none" when the call fails
Stat(fs, p) ==
  LET r == Realpath(fs, p)
  IN IF ~r.ok THEN [type |-> "none", size |-> 0]
     ELSE IF r.path = <<>> THEN [type |-> "dir", size |-> 0]
     ELSE LET n == NodeAt(fs, r.path)
          IN [type |-> n.type, size |-> Len(n.content)]

\* fs.readFile(p) of a path whose stat says "file"
FileContent(fs, p) == NodeAt(fs, Realpath(fs, p).path).content

\* The type a Dirent reports for an entry (no link is followed).
DirentType(fs, realDir, name) ==
  IF HasNode(fs, Append(realDir, name))
    THEN NodeAt(fs, Append(realDir, name)).type
  ELSE "none"

\* fs.readdir(dir, {withFileTypes: true}): ok is FALSE when the call throws
Readdir(fs, dir) ==
  LET r == Realpath(fs, dir)
  IN IF ~r.ok \/ r.path = <<>> THEN [ok |-> FALSE, entries |-> <<>>]
     ELSE LET n == NodeAt(fs, r.path)
          IN IF n.type # "dir" \/ ~n.readable
               THEN [ok |-> FALSE, entries |-> <<>>]
             ELSE [ok |-> TRUE,
                   entries |-> [i \in 1..Len(n.names) |->
                     [name |-> n.names[i],
                      type |-> DirentType(fs, r.path, n.names[i])]]]

\* ---------------------------------------------------------- configuration

\* An optional number is <<>> (absent, or not a number) or <<n>>; n counts
\* halves.
NoNumber == <<>>

IsPositiveNumber(x) == x # <<>> /\ x[1] > 0

DefaultMaxFileBytes == 2000000

DefaultMaxHits == 200

RootEntry(id, path, exclude) ==
  [isObject |-> TRUE, id |-> id, path |-> path, exclude |-> exclude]

\* An entry of the roots array that is no object (null, a string, ...).
JunkEntry == [isObject |-> FALSE, id |-> "", path |-> <<>>, exclude |-> <<>>]

\* The roots of the README's configuration, plus one whose directory is
\* missing.  The requirements root is given relative to the workspace.
ConfiguredRoots ==
  << RootEntry("requirements", <<"req">>, << <<"/", "Temp", "/">> >>),
     RootEntry("wwise", <<"/", "ws", "wwise">>, <<>>),
     RootEntry("unity", <<" ", "/", "ws", "unity", "/">>, <<>>),
     RootEntry("ghost", <<"/", "ws", "missing">>, <<>>) >>

getPluginCfg(raw) ==
  LET IsObj(r) == r.isObject
      roots == IF raw.rootsIsArray THEN SelectSeq(raw.roots, IsObj) ELSE <<>>
  IN IF Len(roots) = 0
       THEN [ok |-> FALSE,
             error |-> "game-audio plugin misconfigured",
             roots |-> <<>>, maxFileBytes |-> 0, maxHits |-> 0,
             followSymlinks |-> FALSE, exclude |-> <<>>,
             includeExtensions |-> <<>>]
     ELSE [ok |-> TRUE,
           error |-> "",
           roots |-> roots,
           maxFileBytes |-> IF IsPositiveNumber(raw.maxFileBytes)
                              THEN raw.maxFileBytes[1]
                            ELSE 2 * DefaultMaxFileBytes,
           maxHits |-> IF IsPositiveNumber(raw.maxHits) THEN raw.maxHits[1]
                       ELSE 2 * DefaultMaxHits,
           followSymlinks |-> raw.followSymlinks,
           exclude |-> raw.exclude,
           includeExtensions |-> raw.includeExtensions]

pathExists(fs, p) == Accessible(fs, p)

\* resolveRoots: the configuration and, for every root, its absolute path
\* and whether it exists.  A misconfiguration is rethrown (ok = FALSE).
resolveRoots(raw, fs) ==
  LET cfg == getPluginCfg(raw)
  IN [ok |-> cfg.ok,
      error |-> cfg.error,
      cfg |-> cfg,
      roots |-> [i \in 1..Len(cfg.roots) |->
        LET abs == toAbsPath(cfg.roots[i].path, Cwd)
        IN [id |-> cfg.roots[i].id,
            path |-> abs,
            exists |-> pathExists(fs, abs),
            exclude |-> cfg.roots[i].exclude]]]

\* ------------------------------------------------------------- file filter

shouldExclude(filePath, globalExclude, rootExclude) ==
  LET norm == PathString(filePath)
  IN \/ \E i \in 1..Len(globalExclude) :
          globalExclude[i] # <<>> /\ Includes(norm, globalExclude[i])
     \/ \E i \in 1..Len(rootExclude) :
          rootExclude[i] # <<>> /\ Includes(norm, rootExclude[i])

extOk(filePath, includeExtensions) ==
  IF Len(includeExtensions) = 0 THEN TRUE
  ELSE LET ext == LowerExt(Extname(filePath))
       IN \E i \in 1..Len(includeExtensions) :
            LowerExt(includeExtensions[i]) = ext

\* ------------------------------------------------------------ line matcher

\* new RegExp(query, flags) throws a SyntaxError for an unbalanced "(".
RegexCompiles(query) == "(" \notin Range(query)

\* The positions (0-based) at or after `from` where the literal pattern
\* matches in s.
MatchStarts(pattern, ignoreCase, s, from) ==
  {i \in from..(Len(s) - Len(pattern)) :
     LET piece == SubSeq(s, i + 1, i + Len(pattern))
     IN IF ignoreCase THEN ToLowerCase(piece) = ToLowerCase(pattern)
        ELSE piece = pattern}

Min(S) == CHOOSE x \in S : \A y \in S : x <= y

\* RegExp.prototype.test of a pattern compiled with the g flag: the search
\* starts at lastIndex; a match moves lastIndex to its end, a failure
\* resets it to 0.
RegexTest(pattern, ignoreCase, s, lastIndex) ==
  LET starts == IF lastIndex > Len(s) THEN {}
                ELSE MatchStarts(pattern, ignoreCase, s, lastIndex)
  IN IF starts = {} THEN [matched |-> FALSE, lastIndex |-> 0]
     ELSE [matched |-> TRUE, lastIndex |-> Min(starts) + Len(pattern)]

\* The closure makeMatcher returns, applied to line s with the regular
\* expression object's lastIndex as it stands.
makeMatcher(query, regex, caseSensitive, s, lastIndex) ==
  LET q == IF caseSensitive THEN query ELSE ToLowerCase(query)
  IN IF regex THEN RegexTest(query, ~caseSensitive, s, lastIndex)
     ELSE LET hay == IF caseSensitive THEN s ELSE ToLowerCase(s)
          IN [matched |-> Includes(hay, q), lastIndex |-> lastIndex]

\* text.split(/\r?\n/): `cur` is the line being collected
RECURSIVE SplitLines(_, _)
SplitLines(cur, rest) ==
  IF rest = <<>> THEN <<cur>>
  ELSE IF Head(rest) = "\n" THEN <<cur>> \o SplitLines(<<>>, Tail(rest))
  ELSE IF Head(rest) = "\r" /\ Tail(rest) # <<>> /\ Head(Tail(rest)) = "\n"
    THEN <<cur>> \o SplitLines(<<>>, Tail(Tail(rest)))
  ELSE SplitLines(Append(cur, Head(rest)), Tail(rest))

MaxLineText == 400

\* String.prototype.slice(0, n)
Slice(s, n) == SubSeq(s, 1, IF Len(s) < n THEN Len(s) ELSE n)

\* ------------------------------------------------------------------ state

VARIABLES
  pluginConfig,  \* api.pluginConfig, as the host hands it over
  fs,            \* the file system (never written by the tools)
  call,          \* the tool call in progress or last returned
  tasks,         \* the searchAcrossRoots invocations of the call, 1..4
  io,            \* file-system accesses made since the call began
  result         \* what the last call returned or threw

vars == <<pluginConfig, fs, call, tasks, io, result>>

TaskIds == 1..4

NoRootIds == [given |-> FALSE, ids |-> <<>>]

RootIds(ids) == [given |-> TRUE, ids |-> ids]

SearchParams(query, rootIds, regex, caseSensitive, maxHits) ==
  [query |-> query, rootIds |-> rootIds, regex |-> regex,
   caseSensitive |-> caseSensitive, maxHits |-> maxHits]

NoParams == SearchParams(<<>>, NoRootIds, FALSE, FALSE, NoNumber)

\* A searchAcrossRoots invocation: its arguments, its locals and where it
\* stands.  pc: "idle" (not called), "start", "root" (between roots),
\* "walk" (inside walkFiles), "scan" (a path was yielded), "done"
\* (returned), "failed" (threw).
IdleTask ==
  [pc |-> "idle", params |-> NoParams, selected |-> <<>>, maxHits |-> 0,
   ri |-> 0, rootReal |-> <<>>, stack |-> <<>>, dir |-> <<>>,
   entries |-> <<>>, cur |-> <<>>, hits |-> <<>>, scannedFiles |-> 0,
   skippedLargeFiles |-> 0, lastIndex |-> 0, error |-> ""]

StartTask(params) == [IdleTask EXCEPT !.pc = "start", !.params = params]

Settled(t) == t.pc \in {"done", "failed"}

NoIo == [access |-> 0, realpath |-> 0, stat |-> 0, readdir |-> 0,
         readFile |-> 0]

NoResult == [ok |-> FALSE, error |-> "", value |-> <<>>]

IdleCall == [phase |-> "idle", op |-> "", args |-> <<>>]

Running(op) == call.phase = "running" /\ call.op = op

\* ------------------------------------------------------- searchAcrossRoots

\* Every id taken as listed.
MemberAlways(x, seq) == TRUE

Member(x, seq) == \E i \in 1..Len(seq) : seq[i] = x

\* Lines 264-277: resolve the roots, select, build the matcher, fix the cap.
searchBegin(k) ==
  LET t == tasks[k]
      p == t.params
      rr == resolveRoots(pluginConfig, fs)
      Wanted(r) == Member(r.id, p.rootIds.ids)
      selected == IF p.rootIds.given /\ Len(p.rootIds.ids) > 0
                    THEN SelectSeq(rr.roots, Wanted)
                  ELSE rr.roots
      maxHits == IF IsPositiveNumber(p.maxHits) THEN p.maxHits[1]
                 ELSE rr.cfg.maxHits
  IN /\ call.phase = "running"
     /\ t.pc = "start"
     /\ IF ~rr.ok
          THEN /\ tasks' = [tasks EXCEPT ![k].pc = "failed",
                                         ![k].error = rr.error]
               /\ io' = io
        ELSE IF p.regex /\ ~RegexCompiles(p.query)
          THEN /\ tasks' = [tasks EXCEPT ![k].pc = "failed",
                                         ![k].error = "SyntaxError"]
               /\ io' = [io EXCEPT !.access = @ + Len(rr.roots)]
        ELSE /\ tasks' = [tasks EXCEPT ![k].pc = "root",
                                       ![k].selected = selected,
                                       ![k].maxHits = maxHits]
             /\ io' = [io EXCEPT !.access = @ + Len(rr.roots)]
     /\ UNCHANGED <<pluginConfig, fs, call, result>>

\* hits.length >= maxHits, maxHits in halves
CapReached(hits, maxHits) == 2 * Len(hits) >= maxHits

\* Lines 283-287 and 323: take the next selected root, or return.
nextRoot(k) ==
  LET t == tasks[k]
  IN /\ call.phase = "running"
     /\ t.pc = "root"
     /\ IF t.ri = Len(t.selected)
          THEN /\ tasks' = [tasks EXCEPT ![k].pc = "done"]
               /\ io' = io
        ELSE LET root == t.selected[t.ri + 1]
                 real == Realpath(fs, root.path)
             IN IF ~root.exists
                  THEN /\ tasks' = [tasks EXCEPT ![k].ri = @ + 1]
                       /\ io' = io
                ELSE /\ tasks' = [tasks EXCEPT
                          ![k].ri = @ + 1,
                          ![k].pc = "walk",
                          ![k].rootReal = IF real.ok THEN real.path
                                          ELSE root.path,
                          ![k].stack = <<root.path>>,
                          ![k].dir = <<>>,
                          ![k].entries = <<>>]
                     /\ io' = [io EXCEPT !.realpath = @ + 1]
     /\ UNCHANGED <<pluginConfig, fs, call, result>>

\* The directory on top of the stack listed but left on the stack.
listDirNoPop(k) ==
  LET t == tasks[k]
  IN /\ call.phase = "running"
     /\ t.pc = "walk"
     /\ t.entries = <<>>
     /\ IF t.stack = <<>>
          THEN /\ tasks' = [tasks EXCEPT ![k].pc = "root"]
               /\ io' = io
        ELSE LET dir == Last(t.stack)
                 rd == Readdir(fs, dir)
             IN /\ tasks' = [tasks EXCEPT ![k].dir = dir,
                                          ![k].entries = rd.entries]
                /\ io' = [io EXCEPT !.readdir = @ + 1]
     /\ UNCHANGED <<pluginConfig, fs, call, result>>

\* walkFiles, lines 160-170: pop a directory and list it; when the stack is
\* empty the generator is finished.
listDir(k) ==
  LET t == tasks[k]
  IN /\ call.phase = "running"
     /\ t.pc = "walk"
     /\ t.entries = <<>>
     /\ IF t.stack = <<>>
          THEN /\ tasks' = [tasks EXCEPT ![k].pc = "root"]
               /\ io' = io
        ELSE LET dir == Last(t.stack)
                 rd == Readdir(fs, dir)
             IN /\ tasks' = [tasks EXCEPT ![k].stack = Front(t.stack),
                                          ![k].dir = dir,
                                          ![k].entries = rd.entries]
                /\ io' = [io EXCEPT !.readdir = @ + 1]
     /\ UNCHANGED <<pluginConfig, fs, call, result>>

\* Links never skipped.
skipLinksNever(followSymlinks) == FALSE

\* Line 183: links are skipped unless they are to be followed.
skipLinks(followSymlinks) == ~followSymlinks

\* What walkFiles does with one directory entry (lines 171-216): "skip",
\* "push" (a directory to descend into) or "yield" (a file path), and the
\* realpath and stat calls it made.
walkEntry(cfg, root, rootReal, full, type) ==
  IF shouldExclude(full, cfg.exclude, root.exclude)
    THEN [do |-> "skip", realpath |-> 0, stat |-> 0]
  ELSE IF type = "link"
    THEN IF skipLinks(cfg.followSymlinks)
           THEN [do |-> "skip", realpath |-> 0, stat |-> 0]
         ELSE LET real == Realpath(fs, full)
                  st == Stat(fs, full)
              IN IF ~real.ok \/ ~isWithinRoot(rootReal, real.path)
                   THEN [do |-> "skip", realpath |-> 1, stat |-> 0]
                 ELSE IF st.type = "dir"
                   THEN [do |-> "push", realpath |-> 1, stat |-> 1]
                 ELSE IF st.type = "file"
                         /\ extOk(full, cfg.includeExtensions)
                   THEN [do |-> "yield", realpath |-> 1, stat |-> 1]
                 ELSE [do |-> "skip", realpath |-> 1, stat |-> 1]
  ELSE IF type = "dir" THEN [do |-> "push", realpath |-> 0, stat |-> 0]
  ELSE IF type = "file" /\ extOk(full, cfg.includeExtensions)
    THEN [do |-> "yield", realpath |-> 0, stat |-> 0]
  ELSE [do |-> "skip", realpath |-> 0, stat |-> 0]

\* walkFiles, the body of `for (const ent of entries)` for the next entry.
nextEntry(k) ==
  LET t == tasks[k]
      cfg == getPluginCfg(pluginConfig)
      root == t.selected[t.ri]
      ent == Head(t.entries)
      full == Append(t.dir, ent.name)
      w == walkEntry(cfg, root, t.rootReal, full, ent.type)
  IN /\ call.phase = "running"
     /\ t.pc = "walk"
     /\ t.entries # <<>>
     /\ tasks' = [tasks EXCEPT
          ![k].entries = Tail(t.entries),
          ![k].stack = IF w.do = "push" THEN Append(t.stack, full) ELSE @,
          ![k].pc = IF w.do = "yield" THEN "scan" ELSE @,
          ![k].cur = IF w.do = "yield" THEN full ELSE @]
     /\ io' = [io EXCEPT !.realpath = @ + w.realpath, !.stat = @ + w.stat]
     /\ UNCHANGED <<pluginConfig, fs, call, result>>

\* readTextFileLimited: the text, or null (ok = FALSE); maxBytes in halves.
readTextFileLimited(filePath, maxBytes) ==
  LET stat == Stat(fs, filePath)
  IN IF stat.type = "none" THEN [ok |-> FALSE, text |-> <<>>, readFile |-> 0]
     ELSE IF stat.type # "file"
       THEN [ok |-> FALSE, text |-> <<>>, readFile |-> 0]
     ELSE IF 2 * stat.size > maxBytes
       THEN [ok |-> FALSE, text |-> <<>>, readFile |-> 0]
     ELSE [ok |-> TRUE, text |-> FileContent(fs, filePath), readFile |-> 1]

\* The line field left 0-based.
makeHitZeroBased(rootId, file, i, line) ==
  [rootId |-> rootId, file |-> file, line |-> i,
   text |-> Slice(line, MaxLineText)]

\* Lines 310-315: the hit pushed for line number i (0-based) of a file.
makeHit(rootId, file, i, line) ==
  [rootId |-> rootId, file |-> file, line |-> i + 1,
   text |-> Slice(line, MaxLineText)]

\* Lines 305-319: test lines i.. of the file, pushing a hit per match, and
\* stop when the cap is reached.
RECURSIVE scanLines(_, _, _, _, _, _, _)
scanLines(p, maxHits, rootId, file, lines, i, acc) ==
  IF i > Len(lines) THEN [acc EXCEPT !.capped = FALSE]
  ELSE
    LET line == lines[i]
        m == makeMatcher(p.query, p.regex, p.caseSensitive, line,
                         acc.lastIndex)
        hit == makeHit(rootId, file, i - 1, line)
    IN IF ~m.matched
         THEN scanLines(p, maxHits, rootId, file, lines, i + 1,
                        [acc EXCEPT !.lastIndex = m.lastIndex])
       ELSE LET hits == Append(acc.hits, hit)
            IN IF CapReached(hits, maxHits)
                 THEN [hits |-> hits, lastIndex |-> m.lastIndex,
                       capped |-> TRUE]
               ELSE scanLines(p, maxHits, rootId, file, lines, i + 1,
                              [acc EXCEPT !.hits = hits,
                                          !.lastIndex = m.lastIndex])

\* Lines 295-319: the body of the `for await` loop for one yielded path.
scanFile(k) ==
  LET t == tasks[k]
      cfg == getPluginCfg(pluginConfig)
      root == t.selected[t.ri]
      rd == readTextFileLimited(t.cur, cfg.maxFileBytes)
      file == Relative(root.path, t.cur)
      sc == scanLines(t.params, t.maxHits, root.id, file,
                      SplitLines(<<>>, rd.text), 1,
                      [hits |-> t.hits, lastIndex |-> t.lastIndex,
                       capped |-> FALSE])
  IN /\ call.phase = "running"
     /\ t.pc = "scan"
     /\ IF CapReached(t.hits, t.maxHits)
          THEN /\ tasks' = [tasks EXCEPT ![k].pc = "done"]
               /\ io' = io
        ELSE IF ~rd.ok
          THEN /\ tasks' = [tasks EXCEPT
                    ![k].pc = "walk",
                    ![k].scannedFiles = @ + 1,
                    ![k].skippedLargeFiles = @ + 1]
               /\ io' = [io EXCEPT !.stat = @ + 1]
        ELSE /\ tasks' = [tasks EXCEPT
                  ![k].pc = IF sc.capped THEN "done" ELSE "walk",
                  ![k].scannedFiles = @ + 1,
                  ![k].hits = sc.hits,
                  ![k].lastIndex = sc.lastIndex]
             /\ io' = [io EXCEPT !.stat = @ + 1, !.readFile = @ + 1]
     /\ UNCHANGED <<pluginConfig, fs, call, result>>

\* One step of searchAcrossRoots invocation k.
searchStep(k) ==
  \/ searchBegin(k)
  \/ nextRoot(k)
  \/ listDir(k)
  \/ nextEntry(k)
  \/ scanFile(k)

\* What searchAcrossRoots resolves to.
SearchResult(t) ==
  [hits |-> t.hits, scannedFiles |-> t.scannedFiles,
   skippedLargeFiles |-> t.skippedLargeFiles]

\* -------------------------------------------------------- readFileFromRoot

Thrown(msg, n) ==
  [ok |-> FALSE, error |-> msg, value |-> <<>>, io |-> n]

Returned(v, n) == [ok |-> TRUE, error |-> "", value |-> v, io |-> n]

\* roots.find((r) => r.id === rootId): the index of the first, or 0
FindRoot(roots, rootId) ==
  IF \E i \in 1..Len(roots) : roots[i].id = rootId
    THEN Min({i \in 1..Len(roots) : roots[i].id = rootId})
  ELSE 0

\* The test for ".." left out.
UnsafeRelNoDotDot(rel) == rel = <<>> \/ StartsWith(rel, <<"/">>)

\* relPath is unsafe: empty, absolute, or containing ".." (line 352)
UnsafeRel(rel) == rel = <<>> \/ StartsWith(rel, <<"/">>) \/ IncludesDotDot(rel)

\* One byte too many.
SubarrayOneMore(buf, maxBytes) == Slice(buf, maxBytes \div 2 + 1)

\* buf.subarray(0, maxBytes): the end index is truncated to an integer
Subarray(buf, maxBytes) == Slice(buf, maxBytes \div 2)

\* readFileFromRoot (lines 342-404), with the file-system accesses it made
\* up to the point where it returned or threw.
readFileFromRoot(rootId, relPath, maxBytesArg) ==
  LET rr == resolveRoots(pluginConfig, fs)
      cfg == rr.cfg
      probed == [NoIo EXCEPT !.access = Len(rr.roots)]
      ri == FindRoot(rr.roots, rootId)
      root == rr.roots[ri]
      rel == Trim(relPath)
      abs == JoinNormalize(root.path, rel)
      relFromRoot == Relative(root.path, abs)
      rootRealTry == Realpath(fs, root.path)
      rootReal == IF rootRealTry.ok THEN rootRealTry.path ELSE root.path
      absReal == Realpath(fs, abs)
      resolved == [probed EXCEPT !.realpath = 2]
      expectedReal == NormalizeSegs(rootReal, relFromRoot)
      maxBytes == IF IsPositiveNumber(maxBytesArg) THEN maxBytesArg[1]
                  ELSE cfg.maxFileBytes
      stat == Stat(fs, abs)
      statted == [resolved EXCEPT !.stat = 1]
      truncated == 2 * stat.size > maxBytes
      buf == FileContent(fs, abs)
      sliced == IF truncated THEN Subarray(buf, maxBytes) ELSE buf
  IN IF ~rr.ok THEN Thrown(rr.error, NoIo)
     ELSE IF ri = 0 THEN Thrown("Unknown rootId", probed)
     ELSE IF ~root.exists THEN Thrown("Root does not exist", probed)
     ELSE IF UnsafeRel(rel)
       THEN Thrown("relPath must be a safe, relative path", probed)
     ELSE IF ~isWithinRoot(root.path, abs)
       THEN Thrown("Path escapes root", probed)
     ELSE IF ~absReal.ok THEN Thrown("File not found", resolved)
     ELSE IF ~isWithinRoot(rootReal, absReal.path)
       THEN Thrown("Path escapes root (symlink)", resolved)
     ELSE IF ~cfg.followSymlinks /\ absReal.path # expectedReal
       THEN Thrown("Symlinks are not allowed by policy", resolved)
     ELSE IF shouldExclude(abs, cfg.exclude, root.exclude)
       THEN Thrown("Path is excluded by policy", resolved)
     ELSE IF stat.type = "none" THEN Thrown("File not found", statted)
     ELSE IF stat.type # "file" THEN Thrown("Not a file", statted)
     ELSE Returned([rootId |-> root.id, absPath |-> abs, relPath |-> rel,
                    truncated |-> truncated, text |-> sliced],
                   [statted EXCEPT !.readFile = 1])

\* ------------------------------------------------------------------ tools

Finish(r) ==
  /\ call' = [call EXCEPT !.phase = "returned"]
  /\ result' = r

NoTasks == [k \in TaskIds |-> IdleTask]

\* audio_roots.execute (lines 412-424)
audio_roots ==
  LET rr == resolveRoots(pluginConfig, fs)
  IN /\ call.phase = "idle"
     /\ call' = [phase |-> "returned", op |-> "audio_roots", args |-> <<>>]
     /\ tasks' = NoTasks
     /\ IF ~rr.ok
          THEN /\ result' = [ok |-> FALSE, error |-> rr.error, value |-> <<>>]
               /\ io' = NoIo
        ELSE /\ result' =
                  [ok |-> TRUE, error |-> "",
                   value |-> [roots |-> rr.roots,
                              limits |-> [maxFileBytes |-> rr.cfg.maxFileBytes,
                                          maxHits |-> rr.cfg.maxHits,
                                          followSymlinks |->
                                            rr.cfg.followSymlinks],
                              exclude |-> rr.cfg.exclude,
                              includeExtensions |-> rr.cfg.includeExtensions]]
             /\ io' = [NoIo EXCEPT !.access = Len(rr.roots)]
     /\ UNCHANGED <<pluginConfig, fs>>

\* audio_search.execute, up to the call of searchAcrossRoots (lines 443-457)
audio_search(params) ==
  /\ call.phase = "idle"
  /\ io' = NoIo
  /\ IF Trim(params.query) = <<>>
       THEN /\ call' = [phase |-> "returned", op |-> "audio_search",
                        args |-> params]
            /\ result' = [ok |-> FALSE, error |-> "query required",
                          value |-> <<>>]
            /\ tasks' = NoTasks
     ELSE /\ call' = [phase |-> "running", op |-> "audio_search",
                      args |-> params]
          /\ result' = NoResult
          /\ tasks' = [NoTasks EXCEPT ![1] = StartTask(params)]
  /\ UNCHANGED <<pluginConfig, fs>>

\* audio_search.execute, after searchAcrossRoots settled (line 458)
audio_search_return ==
  /\ Running("audio_search")
  /\ Settled(tasks[1])
  /\ IF tasks[1].pc = "failed"
       THEN Finish([ok |-> FALSE, error |-> tasks[1].error, value |-> <<>>])
     ELSE Finish([ok |-> TRUE, error |-> "",
                  value |-> SearchResult(tasks[1])])
  /\ UNCHANGED <<pluginConfig, fs, tasks, io>>

\* audio_read.execute (lines 473-486)
audio_read(rootId, relPath, maxBytes) ==
  LET r == readFileFromRoot(rootId, relPath, maxBytes)
      args == [rootId |-> rootId, relPath |-> relPath, maxBytes |-> maxBytes]
  IN /\ call.phase = "idle"
     /\ call' = [phase |-> "returned", op |-> "audio_read", args |-> args]
     /\ tasks' = NoTasks
     /\ IF rootId \in {"", " "} \/ Trim(relPath) = <<>>
          THEN /\ result' = [ok |-> FALSE,
                             error |-> "rootId and relPath required",
                             value |-> <<>>]
               /\ io' = NoIo
        ELSE /\ result' = [ok |-> r.ok, error |-> r.error, value |-> r.value]
             /\ io' = r.io
     /\ UNCHANGED <<pluginConfig, fs>>

\* The Name="<eventName>" query of the Wwise check: "N" is the text Name="
\* and "Q" the closing quote.
NameAttr(eventName) == <<"N">> \o eventName \o <<"Q">>

\* audio_check_event.execute, lines 502-513: the three targeted searches
\* are called one after the other, none awaited before the next is called.
audio_check_event(eventName) ==
  /\ call.phase = "idle"
  /\ io' = NoIo
  /\ IF Trim(eventName) = <<>>
       THEN /\ call' = [phase |-> "returned", op |-> "audio_check_event",
                        args |-> eventName]
            /\ result' = [ok |-> FALSE, error |-> "eventName required",
                          value |-> <<>>]
            /\ tasks' = NoTasks
     ELSE /\ call' = [phase |-> "running", op |-> "audio_check_event",
                      args |-> eventName]
          /\ result' = NoResult
          /\ tasks' = [NoTasks EXCEPT
               ![1] = StartTask(SearchParams(eventName,
                        RootIds(<<"requirements">>), FALSE, FALSE, NoNumber)),
               ![2] = StartTask(SearchParams(NameAttr(eventName),
                        RootIds(<<"wwise">>), FALSE, FALSE, NoNumber)),
               ![3] = StartTask(SearchParams(eventName,
                        RootIds(<<"unity">>), FALSE, FALSE, NoNumber))]
  /\ UNCHANGED <<pluginConfig, fs>>

\* The fallback called next to the targeted searches, their settling not
\* awaited.
audio_check_event_fallback_eager ==
  /\ Running("audio_check_event")
  /\ tasks[4].pc = "idle"
  /\ tasks' = [tasks EXCEPT
       ![4] = StartTask(SearchParams(call.args, NoRootIds, FALSE, FALSE,
                                     NoNumber))]
  /\ UNCHANGED <<pluginConfig, fs, call, io, result>>

\* Line 516: the fallback search is called once Promise.all of the three
\* targeted searches has resolved.
audio_check_event_fallback ==
  /\ Running("audio_check_event")
  /\ \A k \in 1..3 : Settled(tasks[k])
  /\ tasks[4].pc = "idle"
  /\ tasks' = [tasks EXCEPT
       ![4] = StartTask(SearchParams(call.args, NoRootIds, FALSE, FALSE,
                                     NoNumber))]
  /\ UNCHANGED <<pluginConfig, fs, call, io, result>>

\* `.catch(() => null)`: a rejected search becomes null
Caught(t) ==
  IF t.pc = "failed" THEN [isNull |-> TRUE, hits |-> <<>>, scannedFiles |-> 0,
                           skippedLargeFiles |-> 0]
  ELSE [isNull |-> FALSE, hits |-> t.hits, scannedFiles |-> t.scannedFiles,
        skippedLargeFiles |-> t.skippedLargeFiles]

\* Any search that did not reject counted as a hit.
HasHitsNotNull(x) == ~x.isNull

\* (x?.hits?.length ?? 0) > 0
HasHits(x) == (IF x.isNull THEN 0 ELSE Len(x.hits)) > 0

\* audio_check_event.execute, lines 518-535
audio_check_event_return ==
  LET req == Caught(tasks[1])
      wwise == Caught(tasks[2])
      unity == Caught(tasks[3])
      fallback == Caught(tasks[4])
  IN /\ Running("audio_check_event")
     /\ \A k \in 1..3 : Settled(tasks[k])
     /\ Settled(tasks[4])
     /\ Finish([ok |-> TRUE, error |-> "",
                value |-> [eventName |-> call.args,
                           checks |-> [requirements |-> req,
                                       wwiseNameAttr |-> wwise,
                                       unityRefs |-> unity,
                                       fallback |-> fallback],
                           interpretation |->
                             [requirementsMentioned |-> HasHits(req),
                              wwiseProbablyDefined |-> HasHits(wwise),
                              unityReferenced |-> HasHits(unity)]]])
     /\ UNCHANGED <<pluginConfig, fs, tasks, io>>

\* The host has taken the result (or the error); the plugin keeps no state
\* from one call to the next.
deliver ==
  /\ call.phase = "returned"
  /\ call' = IdleCall
  /\ tasks' = NoTasks
  /\ io' = NoIo
  /\ result' = NoResult
  /\ UNCHANGED <<pluginConfig, fs>>

\* --------------------------------------------------------- specifications

GlobalExclude == << <<"/", "Library", "/">> >>

Extensions == <<".MD", ".wwu", ".cs">>

Config(roots, maxFileBytes, maxHits, followSymlinks, includeExtensions) ==
  [rootsIsArray |-> TRUE, roots |-> roots, maxFileBytes |-> maxFileBytes,
   maxHits |-> maxHits, followSymlinks |-> followSymlinks,
   exclude |-> GlobalExclude, includeExtensions |-> includeExtensions]

\* Configurations with no usable root list: absent, empty, only junk.
BadConfigs ==
  { [Config(<<>>, NoNumber, NoNumber, FALSE, <<>>)
       EXCEPT !.rootsIsArray = FALSE],
    Config(<<>>, NoNumber, NoNumber, FALSE, <<>>),
    Config(<<JunkEntry>>, NoNumber, NoNumber, TRUE, Extensions) }

Trees == {Tree(FALSE), Tree(TRUE)}

TypeOK ==
  /\ call.phase \in {"idle", "running", "returned"}
  /\ \A k \in TaskIds :
       tasks[k].pc \in {"idle", "start", "root", "walk", "scan", "done",
                        "failed"}

InitWith(configs) ==
  /\ pluginConfig \in configs
  /\ fs \in Trees
  /\ call = IdleCall
  /\ tasks = NoTasks
  /\ io = NoIo
  /\ result = NoResult

\* --- search alone

SearchConfigs ==
  {Config(ConfiguredRoots, mfb, mh, follow, Extensions) :
     mfb \in {<<11>>, NoNumber}, mh \in {<<3>>, NoNumber},
     follow \in BOOLEAN}

Queries == {<<"e", "v">>, <<"E", "V">>, <<"x", "y">>, <<"(">>, <<" ">>}

SearchArgs ==
  {SearchParams(q, ids, re, cs, mh) :
     q \in Queries,
     ids \in {NoRootIds, RootIds(<<>>), RootIds(<<"wwise">>),
              RootIds(<<"nope">>),
              RootIds(<<"unity", "requirements", "ghost">>)},
     re \in BOOLEAN, cs \in BOOLEAN,
     mh \in {NoNumber, <<0>>, <<2>>, <<5>>}}

InitSearch == InitWith(SearchConfigs)

NextSearch ==
  \/ \E params \in SearchArgs : audio_search(params)
  \/ searchStep(1)
  \/ audio_search_return
  \/ deliver

SpecSearch == InitSearch /\ [][NextSearch]_vars

\* --- read alone

ReadConfigs ==
  {Config(ConfiguredRoots, mfb, NoNumber, follow, Extensions) :
     mfb \in {<<11>>, NoNumber}, follow \in BOOLEAN}
  \cup BadConfigs

ReadRootIds == {"requirements", "wwise", "unity", "ghost", "nope", " "}

RelPaths ==
  { <<"audio.md">>, <<"big.md">>, <<"v1..2.md">>, <<"Events.wwu">>,
    <<"Audio.CS">>, <<"sub">>, <<"nothing.md">>, <<" ">>,
    <<"..", "/", "outside", "/", "secret.md">>,
    <<"/", "ws", "outside", "/", "secret.md">>,
    <<"sub", "/", "..", "/", "Events.wwu">>,
    <<" ", ".", "/", "sub", "/", "/", "deep.wwu", " ">>,
    <<"lnk", "/", "deep.wwu">>, <<"alias.wwu">>, <<"ext.md">>,
    <<"out", "/", "secret.md">>, <<"self", "/", "Events.wwu">>,
    <<"Library", "/", "x.cs">> }

ReadMaxBytes == {NoNumber, <<0>>, <<5>>, <<16>>}

InitRead == InitWith(ReadConfigs)

NextRead ==
  \/ \E rootId \in ReadRootIds, relPath \in RelPaths, mb \in ReadMaxBytes :
       audio_read(rootId, relPath, mb)
  \/ deliver

SpecRead == InitRead /\ [][NextRead]_vars

\* --- search and read

ToolConfigs ==
  {Config(ConfiguredRoots, mfb, NoNumber, follow, Extensions) :
     mfb \in {<<11>>, NoNumber}, follow \in BOOLEAN}

ToolSearchArgs ==
  {SearchParams(q, ids, re, FALSE, mh) :
     q \in {<<"e", "v">>, <<"x", "y">>},
     ids \in {NoRootIds, RootIds(<<"wwise">>)},
     re \in BOOLEAN,
     mh \in {NoNumber, <<4>>}}

InitTools == InitWith(ToolConfigs)

NextTools ==
  \/ \E params \in ToolSearchArgs : audio_search(params)
  \/ searchStep(1)
  \/ audio_search_return
  \/ \E rootId \in ReadRootIds, relPath \in RelPaths, mb \in ReadMaxBytes :
       audio_read(rootId, relPath, mb)
  \/ deliver

SpecTools == InitTools /\ [][NextTools]_vars

\* --- check-event

CheckConfigs ==
  {Config(ConfiguredRoots, mfb, mh, follow, Extensions) :
     mfb \in {<<11>>, NoNumber}, mh \in {<<3>>, NoNumber},
     follow \in BOOLEAN}
  \cup BadConfigs

EventNames == {<<"e", "v">>, <<"x", "y">>, <<" ">>}

InitCheck == InitWith(CheckConfigs)

NextCheck ==
  \/ \E eventName \in EventNames : audio_check_event(eventName)
  \/ \E k \in TaskIds : searchStep(k)
  \/ audio_check_event_fallback
  \/ audio_check_event_return
  \/ deliver

SpecCheck == InitCheck /\ [][NextCheck]_vars

\* --- the four tools

AllConfigs ==
  {Config(ConfiguredRoots, NoNumber, NoNumber, follow, Extensions) :
     follow \in BOOLEAN}
  \cup BadConfigs

AllSearchArgs ==
  {SearchParams(q, ids, FALSE, FALSE, NoNumber) :
     q \in {<<"e", "v">>, <<" ">>},
     ids \in {NoRootIds, RootIds(<<"ghost">>)}}

InitAll == InitWith(AllConfigs)

NextAll ==
  \/ audio_roots
  \/ \E params \in AllSearchArgs : audio_search(params)
  \/ audio_search_return
  \/ \E rootId \in ReadRootIds, relPath \in RelPaths, mb \in {NoNumber} :
       audio_read(rootId, relPath, mb)
  \/ \E eventName \in EventNames : audio_check_event(eventName)
  \/ \E k \in TaskIds : searchStep(k)
  \/ audio_check_event_fallback
  \/ audio_check_event_return
  \/ deliver

SpecAll == InitAll /\ [][NextAll]_vars

\* ------------------------------------------------- what the claims speak of

\* The searchAcrossRoots invocations that got past their first lines.
Searching(t) == t.pc \in {"root", "walk", "scan", "done"}

\* The effective hit cap of a search, in halves: the maxHits argument if it
\* is a positive number, otherwise the configured default.
EffectiveMaxHits(params) ==
  IF IsPositiveNumber(params.maxHits) THEN params.maxHits[1]
  ELSE IF IsPositiveNumber(pluginConfig.maxHits) THEN pluginConfig.maxHits[1]
  ELSE 2 * DefaultMaxHits

\* Every path below a directory, whatever it is reached through.
RECURSIVE PathsBelow(_)
PathsBelow(dir) ==
  LET rd == Readdir(fs, dir)
  IN UNION {LET full == Append(dir, rd.entries[i].name)
            IN {full} \cup (IF Stat(fs, full).type = "dir"
                              THEN PathsBelow(full) ELSE {})
            : i \in 1..Len(rd.entries)}

\* What a directory listing says the path is: "link" for a symbolic link.
Lstat(p) ==
  LET parent == Realpath(fs, Front(p))
  IN IF parent.ok THEN DirentType(fs, parent.path, Last(p)) ELSE "none"

RealOf(p) == LET r == Realpath(fs, p) IN IF r.ok THEN r.path ELSE p

\* The path is inside the real root once every link is resolved.
RealWithin(rootPath, p) ==
  /\ Realpath(fs, p).ok
  /\ LET rootReal == RealOf(rootPath)
         real == Realpath(fs, p).path
     IN /\ Len(real) >= Len(rootReal)
        /\ SubSeq(real, 1, Len(rootReal)) = rootReal

\* A file of a root that a search is to look into: a regular file below the
\* root, reached through listable directories, with no path on the way
\* (its own included) excluded or, unless links are followed and stay in
\* the root, a symbolic link; of an allowed extension and within the size
\* ceiling.
Eligible(root, p) ==
  LET cfg == getPluginCfg(pluginConfig)
      n == Len(root.path)
  IN /\ Stat(fs, p).type = "file"
     /\ extOk(p, cfg.includeExtensions)
     /\ 2 * Stat(fs, p).size <= cfg.maxFileBytes
     /\ \A j \in (n + 1)..Len(p) :
          LET q == SubSeq(p, 1, j)
          IN /\ ~shouldExclude(q, cfg.exclude, root.exclude)
             /\ Lstat(q) = "link" =>
                  cfg.followSymlinks /\ RealWithin(root.path, q)
     /\ \A j \in n..(Len(p) - 1) : Readdir(fs, SubSeq(p, 1, j)).ok

EligibleFiles(root) ==
  IF root.exists THEN {p \in PathsBelow(root.path) : Eligible(root, p)}
  ELSE {}

\* The lines of a text: the runs between line feeds, a carriage return
\* before the line feed not counted.
LineFeeds(text) == {i \in 1..Len(text) : text[i] = "\n"}

LineCount(text) == Cardinality(LineFeeds(text)) + 1

LineAt(text, i) ==
  LET ends == LineFeeds(text) \cup {0, Len(text) + 1}
      Nth(n) == CHOOSE e \in ends : Cardinality({x \in ends : x < e}) = n
      from == Nth(i - 1) + 1
      to == Nth(i) - 1
      last == IF to >= from /\ to < Len(text) /\ text[to] = "\r"
                THEN to - 1 ELSE to
  IN SubSeq(text, from, last)

\* The line contains the query, compared according to caseSensitive.
LineContains(line, query, caseSensitive) ==
  \E i \in 1..Len(line) : \E j \in i..Len(line) :
    IF caseSensitive THEN SubSeq(line, i, j) = query
    ELSE ToLowerCase(SubSeq(line, i, j)) = ToLowerCase(query)

\* The hits a search over the selected roots is to return: one per line that
\* contains the query, in every eligible file.
ExpectedHits(t) ==
  UNION {
    UNION {
      LET text == FileContent(fs, p)
      IN {[rootId |-> t.selected[r].id,
           file |-> SubSeq(p, Len(t.selected[r].path) + 1, Len(p)),
           line |-> i,
           text |-> LineAt(text, i)] :
            i \in {i \in 1..LineCount(text) :
                     LineContains(LineAt(text, i), t.params.query,
                                  t.params.caseSensitive)}}
      : p \in EligibleFiles(t.selected[r])}
    : r \in 1..Len(t.selected)}

\* The search returned without reaching its cap.
ReturnedBelowCap(t) ==
  t.pc = "done" /\ 2 * Len(t.hits) < EffectiveMaxHits(t.params)

\* ------------------------------------------------------------------ claims

\* C1: hits.length never exceeds the effective maxHits, and once it has
\* reached it the search has returned: it takes no further step, so it reads
\* no further file and lists no further directory.
C1_HitsWithinMaxHits ==
  \A k \in TaskIds :
    Searching(tasks[k]) =>
      /\ 2 * Len(tasks[k].hits) <= EffectiveMaxHits(tasks[k].params)
      /\ 2 * Len(tasks[k].hits) >= EffectiveMaxHits(tasks[k].params)
           => tasks[k].pc = "done"

\* C8: a literal-substring search that returned below its cap holds exactly
\* one hit for every line of every eligible file that contains the query,
\* no other hit, and each hit carries the 1-based number of its line.
C8_SubstringHitsExact ==
  \A k \in TaskIds :
    (ReturnedBelowCap(tasks[k]) /\ ~tasks[k].params.regex) =>
      /\ Range(tasks[k].hits) = ExpectedHits(tasks[k])
      /\ Len(tasks[k].hits) = Cardinality(ExpectedHits(tasks[k]))

\* C8 witness: a case-insensitive substring search over all roots returned
\* hits from several files, one of them on a second line.
C8_Witness ==
  \E k \in TaskIds :
    /\ ReturnedBelowCap(tasks[k])
    /\ ~tasks[k].params.regex
    /\ ~tasks[k].params.caseSensitive
    /\ \E h \in Range(tasks[k].hits) : h.line = 2 /\ h.rootId = "requirements"
    /\ \E h \in Range(tasks[k].hits) : h.rootId = "unity"

\* C10: a regex search that returned below its cap holds a hit for a line
\* if and only if the line contains a match of the pattern, whatever lines
\* were tested before it.
C10_RegexHitsExact ==
  \A k \in TaskIds :
    (ReturnedBelowCap(tasks[k]) /\ tasks[k].params.regex) =>
      Range(tasks[k].hits) = ExpectedHits(tasks[k])

\* The resolved root a hit or a read names.
RootOf(rootId) ==
  LET roots == resolveRoots(pluginConfig, fs).roots
  IN roots[FindRoot(roots, rootId)]

KnownRoot(rootId) ==
  /\ getPluginCfg(pluginConfig).ok
  /\ FindRoot(resolveRoots(pluginConfig, fs).roots, rootId) # 0

\* The absolute path of the file a hit refers to.
HitPath(hit) == RootOf(hit.rootId).path \o hit.file

\* A read call has returned (or thrown).
ReadReturned == call.phase = "returned" /\ call.op = "audio_read"

\* The path a read call asks for: the root's path joined with relPath.
ReadTarget == JoinNormalize(RootOf(call.args.rootId).path,
                            Trim(call.args.relPath))

NoLinkBelow(rootPath, p) ==
  \A j \in (Len(rootPath) + 1)..Len(p) : Lstat(SubSeq(p, 1, j)) # "link"

\* The errors by which a read is refused on account of a symbolic link.
SymlinkPolicyErrors ==
  {"Symlinks are not allowed by policy", "Path escapes root (symlink)"}

\* The real path of a read's target differs from the join of the real root
\* path and the relative path.
ReadThroughLink ==
  /\ KnownRoot(call.args.rootId)
  /\ RootOf(call.args.rootId).exists
  /\ Realpath(fs, ReadTarget).ok
  /\ Realpath(fs, ReadTarget).path #
       JoinNormalize(RealOf(RootOf(call.args.rootId).path),
                     Trim(call.args.relPath))

\* C4: with followSymlinks false the walker takes up no symbolic link, file
\* or directory, so no hit comes from a path with a link in it, and a read
\* whose target's real path differs from the join of the real root path and
\* the relative path fails with a symlink-policy error; no read returns
\* content reached through a link.
C4_NoContentThroughLinks ==
  (getPluginCfg(pluginConfig).ok
     /\ ~getPluginCfg(pluginConfig).followSymlinks) =>
    /\ \A k \in TaskIds :
         (Searching(tasks[k]) /\ tasks[k].ri > 0) =>
           LET root == tasks[k].selected[tasks[k].ri]
           IN /\ \A i \in 1..Len(tasks[k].stack) :
                   NoLinkBelow(root.path, tasks[k].stack[i])
              /\ tasks[k].pc = "scan" => NoLinkBelow(root.path, tasks[k].cur)
    /\ \A k \in TaskIds :
         Searching(tasks[k]) =>
           \A h \in Range(tasks[k].hits) :
             NoLinkBelow(RootOf(h.rootId).path, HitPath(h))
    /\ (ReadReturned /\ ReadThroughLink /\ call.args.rootId # " ") =>
         ~result.ok /\ result.error \in SymlinkPolicyErrors
    /\ (ReadReturned /\ result.ok) =>
         NoLinkBelow(RootOf(call.args.rootId).path, result.value.absPath)

\* C4 witness: with followSymlinks false, a read of a link whose target is
\* a file inside the root was refused by the symlink policy.
C4_Witness ==
  /\ ~getPluginCfg(pluginConfig).followSymlinks
  /\ ReadReturned
  /\ call.args.rootId = "wwise"
  /\ call.args.relPath = <<"alias.wwu">>
  /\ result.error = "Symlinks are not allowed by policy"

\* A relative path as a path string: "/" between the segments.
RECURSIVE RelString(_)
RelString(segs) ==
  IF Len(segs) <= 1 THEN segs
  ELSE <<Head(segs), "/">> \o RelString(Tail(segs))

\* floor of a number kept in halves
Floor(halves) == halves \div 2

\* Search invocation k stands at a yielded file larger than the configured
\* byte ceiling.
AtLargeFile(k) ==
  /\ tasks[k].pc = "scan"
  /\ Stat(fs, tasks[k].cur).type = "file"
  /\ 2 * Stat(fs, tasks[k].cur).size > getPluginCfg(pluginConfig).maxFileBytes

\* The direct read of the file search invocation k stands at, by its root
\* and its path relative to the root, with the configured bound.
DirectRead(k) ==
  LET root == tasks[k].selected[tasks[k].ri]
  IN readFileFromRoot(root.id,
                      RelString(SubSeq(tasks[k].cur, Len(root.path) + 1,
                                       Len(tasks[k].cur))),
                      NoNumber)

\* The direct read succeeds, truncated to the first maxFileBytes bytes.
DirectReadTruncated(k) ==
  /\ DirectRead(k).ok
  /\ DirectRead(k).value.truncated
  /\ DirectRead(k).value.text =
       Slice(FileContent(fs, tasks[k].cur),
             Floor(getPluginCfg(pluginConfig).maxFileBytes))

\* The step search invocation k takes at a large file: it counts the file
\* as skipped, adds no hit and reads no content.
SkipsLargeFile(k) ==
  /\ tasks'[k].skippedLargeFiles = tasks[k].skippedLargeFiles + 1
  /\ tasks'[k].hits = tasks[k].hits
  /\ io'.readFile = io.readFile

\* The effective bound of a read call, in halves.
ReadBound ==
  IF IsPositiveNumber(call.args.maxBytes) THEN call.args.maxBytes[1]
  ELSE getPluginCfg(pluginConfig).maxFileBytes

\* A successful read is truncated exactly when the file is larger than the
\* bound, and then holds the first maxBytes (whole) bytes; otherwise it
\* holds the whole content.
ReadRespectsBound ==
  (ReadReturned /\ result.ok) =>
    LET content == FileContent(fs, result.value.absPath)
    IN IF 2 * Len(content) > ReadBound
         THEN /\ result.value.truncated
              /\ result.value.text = Slice(content, Floor(ReadBound))
         ELSE /\ ~result.value.truncated
              /\ result.value.text = content

UnsafeRelPathGiven ==
  \/ IncludesDotDot(call.args.relPath)
  \/ StartsWith(call.args.relPath, <<"/">>)

\* The errors the spec's taxonomy calls validation errors.
ValidationErrors ==
  {"relPath must be a safe, relative path", "rootId and relPath required",
   "Unknown rootId"}

\* C3 as stated: a read whose relPath contains ".." or starts with "/"
\* fails with a validation error and makes no file-system access at all.
C3_UnsafeRelPathNoAccess ==
  (ReadReturned /\ UnsafeRelPathGiven) =>
    /\ ~result.ok
    /\ result.error \in ValidationErrors
    /\ io = NoIo

\* The checks of a read call that come before the relPath check pass: the
\* rootId is not blank, the roots are configured, the rootId names one of
\* them and its directory exists.
ReachesRelPathCheck ==
  /\ call.args.rootId # " "
  /\ KnownRoot(call.args.rootId)
  /\ RootOf(call.args.rootId).exists

\* C3 amended: such a read fails, with the relPath validation error whenever
\* the checks before it pass, and its only file-system accesses are the
\* existence probes of the configured roots made while the roots are
\* resolved: no realpath, stat, directory listing or file read.
C3_UnsafeRelPathOnlyProbesRoots ==
  (ReadReturned /\ UnsafeRelPathGiven) =>
    /\ ~result.ok
    /\ IF ReachesRelPathCheck
         THEN result.error = "relPath must be a safe, relative path"
       ELSE result.error \in
              {"rootId and relPath required",
               "game-audio plugin misconfigured",
               "Unknown rootId", "Root does not exist"}
    /\ io.realpath = 0 /\ io.stat = 0 /\ io.readdir = 0 /\ io.readFile = 0
    /\ io.access \in {0, Len(getPluginCfg(pluginConfig).roots)}

\* C3 witness: a read of ../outside/secret.md from the Wwise root was
\* refused after the four roots had been probed.
C3_Witness ==
  /\ ReadReturned
  /\ call.args.rootId = "wwise"
  /\ call.args.relPath = <<"..", "/", "outside", "/", "secret.md">>
  /\ result.error = "relPath must be a safe, relative path"
  /\ io = [NoIo EXCEPT !.access = 4]

\* The configured root list is empty or absent: no array, or an array
\* with no object entry.
RootListEmptyOrAbsent ==
  \/ ~pluginConfig.rootsIsArray
  \/ \A i \in 1..Len(pluginConfig.roots) : ~pluginConfig.roots[i].isObject

\* The call was refused for its arguments, before the configuration is read.
ArgumentRefused ==
  /\ ~result.ok
  /\ result.error \in
       {"query required", "rootId and relPath required", "eventName required"}

\* C5: with an empty or absent root list every one of the four operations
\* fails with the misconfiguration error (a call that is not refused for
\* its arguments first).
C5_MisconfigurationFailsEveryOperation ==
  (call.phase = "returned" /\ RootListEmptyOrAbsent /\ ~ArgumentRefused) =>
    /\ ~result.ok
    /\ result.error = "game-audio plugin misconfigured"

CheckRunning == call.phase = "running" /\ call.op = "audio_check_event"

CheckReturned ==
  call.phase = "returned" /\ call.op = "audio_check_event" /\ result.ok

Called(t) == t.pc # "idle"

Finished(t) == t.pc \in {"done", "failed"}

\* The four sub-searches of the running or returned call are the four the
\* spec lists: requirements, Name="<eventName>" in wwise, unity, and the
\* unrestricted fallback.
FourSubSearches ==
  /\ tasks[1].params.query = call.args
  /\ tasks[1].params.rootIds = RootIds(<<"requirements">>)
  /\ tasks[2].params.query = <<"N">> \o call.args \o <<"Q">>
  /\ tasks[2].params.rootIds = RootIds(<<"wwise">>)
  /\ tasks[3].params.query = call.args
  /\ tasks[3].params.rootIds = RootIds(<<"unity">>)
  /\ tasks[4].params.query = call.args
  /\ tasks[4].params.rootIds = NoRootIds
  /\ \A k \in TaskIds : ~tasks[k].params.regex

\* C6 as stated: the four sub-searches are started together, the fallback
\* not waiting for the other three; the fallback runs on every call; the
\* results are combined only after all four have settled.
C6_FourSearchesConcurrent ==
  /\ CheckRunning => \A k \in TaskIds : Called(tasks[k])
  /\ CheckReturned => FourSubSearches /\ \A k \in TaskIds : Finished(tasks[k])

\* C6 amended: the three targeted searches are started together and run
\* concurrently; the fallback is started only after all three have settled,
\* on every call whatever they found; the results are combined only after
\* all four have settled.
C6_FallbackAfterTargetedSettle ==
  /\ CheckRunning => \A k \in 1..3 : Called(tasks[k])
  /\ (CheckRunning /\ Called(tasks[4])) =>
       \A k \in 1..3 : Finished(tasks[k])
  /\ CheckReturned => FourSubSearches /\ \A k \in TaskIds : Finished(tasks[k])

\* C6 witness: the fallback search is reading a file after the three
\* targeted searches returned, the Wwise one with no hit.
C6_Witness ==
  /\ CheckRunning
  /\ tasks[4].pc = "scan"
  /\ \A k \in 1..3 : tasks[k].pc = "done"
  /\ tasks[1].hits # <<>>
  /\ tasks[2].hits = <<>>

\* An eligible file of the root holds a line that contains the text,
\* letter case ignored.
TextUnder(rootId, text) ==
  /\ KnownRoot(rootId)
  /\ \E p \in EligibleFiles(RootOf(rootId)) :
       \E i \in 1..LineCount(FileContent(fs, p)) :
         LineContains(LineAt(FileContent(fs, p), i), text, FALSE)

Interpretation == result.value.interpretation

\* C7: each of the three booleans is true exactly when its targeted search
\* produced a hit; when each of the three roots holds an eligible file with
\* the matching text all three are true; when the name occurs only under
\* the requirements root the other two are false and the fallback result
\* holds a hit from the requirements root.
C7_BooleansFollowTargetedHits ==
  CheckReturned =>
    LET name == call.args
        attr == <<"N">> \o name \o <<"Q">>
    IN /\ FourSubSearches
       /\ Interpretation.requirementsMentioned
            = (tasks[1].pc = "done" /\ Len(tasks[1].hits) >= 1)
       /\ Interpretation.wwiseProbablyDefined
            = (tasks[2].pc = "done" /\ Len(tasks[2].hits) >= 1)
       /\ Interpretation.unityReferenced
            = (tasks[3].pc = "done" /\ Len(tasks[3].hits) >= 1)
       /\ (/\ TextUnder("requirements", name)
           /\ TextUnder("wwise", attr)
           /\ TextUnder("unity", name)) =>
            /\ Interpretation.requirementsMentioned
            /\ Interpretation.wwiseProbablyDefined
            /\ Interpretation.unityReferenced
       /\ (/\ TextUnder("requirements", name)
           /\ \A id \in {"wwise", "unity", "ghost"} : ~TextUnder(id, name)) =>
            /\ ~Interpretation.wwiseProbablyDefined
            /\ ~Interpretation.unityReferenced
            /\ \E h \in Range(result.value.checks.fallback.hits) :
                 h.rootId = "requirements"

\* C7 witness: the check of a name that occurs only under the requirements
\* root returned.
C7_Witness ==
  /\ CheckReturned
  /\ call.args = <<"x", "y">>
  /\ TextUnder("requirements", call.args)
  /\ \A id \in {"wwise", "unity", "ghost"} : ~TextUnder(id, call.args)
  /\ Interpretation.requirementsMentioned

\* --- the walk to its end

WalkConfigs ==
  {Config(ConfiguredRoots, mfb, NoNumber, follow, Extensions) :
     mfb \in {<<11>>, NoNumber}, follow \in BOOLEAN}

WalkArgs ==
  {SearchParams(q, ids, FALSE, FALSE, NoNumber) :
     q \in {<<"e", "v">>, <<"z">>},
     ids \in {NoRootIds, RootIds(<<"wwise">>)}}

InitWalk == InitWith(WalkConfigs)

NextWalk ==
  \/ \E params \in WalkArgs : audio_search(params)
  \/ searchStep(1)
  \/ audio_search_return
  \/ deliver

\* searchStep(1) is enabled: the search is between two of its awaits.
SearchPending ==
  call.phase = "running" /\ tasks[1].pc \in {"start", "root", "walk", "scan"}

\* audio_search_return is enabled: the awaited search has settled.
ReturnPending ==
  call.phase = "running" /\ call.op = "audio_search" /\ Settled(tasks[1])

\* Every await of searchAcrossRoots is on a file-system call that settles,
\* and the event loop then runs the continuation: weak fairness of
\* searchStep(1) and of audio_search_return, with ENABLED written out.
SpecWalk ==
  /\ InitWalk
  /\ [][NextWalk]_vars
  /\ ([]<>(~SearchPending) \/ []<><<searchStep(1)>>_vars)
  /\ ([]<>(~ReturnPending) \/ []<><<audio_search_return>>_vars)

\* The paths of the directories, or of the files, of the subtrees of the
\* selected roots that exist, every path through a link counted.
SubtreePaths(t, type) ==
  UNION {LET root == t.selected[r]
         IN IF root.exists
              THEN {p \in {root.path} \cup PathsBelow(root.path) :
                      Stat(fs, p).type = type}
            ELSE {}
         : r \in 1..Len(t.selected)}

\* The walks of a search list no more directories than the subtrees hold
\* directory paths and yield no more files than they hold file paths.
WalkWithinSubtree ==
  Searching(tasks[1]) =>
    /\ io.readdir <= Cardinality(SubtreePaths(tasks[1], "dir"))
    /\ tasks[1].scannedFiles <= Cardinality(SubtreePaths(tasks[1], "file"))

\* C11: whatever the tree and the followSymlinks setting, links to in-root
\* directories and to the root itself included, the walk is finite (it
\* lists no path twice), a walk that was begun comes to its end, and the
\* search that runs it returns.
C11_WalkTerminates ==
  /\ []WalkWithinSubtree
  /\ (tasks[1].pc = "walk") ~> (tasks[1].pc \in {"root", "done"})
  /\ (call.phase = "running") ~> (call.phase = "returned" /\ result.ok)

\* C11 witness: with links followed, in the tree whose link `self` points
\* to the root, a search that did not reach its cap returned after it had
\* walked through `self` and through `lnk`.
C11_Witness ==
  /\ call.phase = "returned"
  /\ call.op = "audio_search"
  /\ pluginConfig.followSymlinks
  /\ fs = Tree(TRUE)
  /\ ReturnedBelowCap(tasks[1])
  /\ \E h \in Range(tasks[1].hits) : Head(h.file) = "self"
  /\ \E h \in Range(tasks[1].hits) : Head(h.file) = "lnk"

\* The ids of the roots a search selected, in the order it walks them.
SelectedIds(t) == [i \in 1..Len(t.selected) |-> t.selected[i].id]

\* The ids of the configured roots, in their configured order.
ConfiguredIds ==
  LET roots == resolveRoots(pluginConfig, fs).roots
  IN [i \in 1..Len(roots) |-> roots[i].id]

\* The configured ids that are in the list, in their configured order.
RECURSIVE Listed(_, _)
Listed(ids, list) ==
  IF ids = <<>> THEN <<>>
  ELSE (IF Head(ids) \in Range(list) THEN <<Head(ids)>> ELSE <<>>)
         \o Listed(Tail(ids), list)

\* The search selected the roots named by `list`, every hit comes from one
\* of them, and an id that names no root raised no error.
RestrictedTo(t, list) ==
  /\ Searching(t)
  /\ SelectedIds(t) = Listed(ConfiguredIds, list)
  /\ \A h \in Range(t.hits) : h.rootId \in Range(list)

\* The search selected every configured root.
Unrestricted(t) == Searching(t) /\ SelectedIds(t) = ConfiguredIds

\* The search got past its first lines or threw there; it throws only for a
\* pattern that is no regular expression, the roots being configured.
Began(t) == t.pc \notin {"idle", "start"}

ThrewForPattern(t) ==
  t.pc = "failed" /\ t.params.regex /\ t.params.query = <<"(">>

\* C12 as stated: a search given a rootIds list, of any length, is
\* restricted to the list, and one given none searches all roots.
C12_RestrictedToGivenRootIds ==
  \A k \in TaskIds :
    LET t == tasks[k]
    IN Began(t) =>
         \/ ThrewForPattern(t)
         \/ IF t.params.rootIds.given
              THEN RestrictedTo(t, t.params.rootIds.ids)
            ELSE Unrestricted(t)

\* C12 amended: a search given a rootIds list that is not empty is
\* restricted to the list; one given no list, or an empty list, searches
\* all roots.
C12_RestrictedToNonEmptyRootIds ==
  \A k \in TaskIds :
    LET t == tasks[k]
    IN Began(t) =>
         \/ ThrewForPattern(t)
         \/ IF t.params.rootIds.given /\ t.params.rootIds.ids # <<>>
              THEN RestrictedTo(t, t.params.rootIds.ids)
            ELSE Unrestricted(t)

\* C12 witness: a search given the list unity, requirements, ghost returned
\* hits from the requirements and the Unity root and none from Wwise.
C12_Witness ==
  /\ tasks[1].pc = "done"
  /\ tasks[1].params.rootIds = RootIds(<<"unity", "requirements", "ghost">>)
  /\ SelectedIds(tasks[1]) = <<"requirements", "unity", "ghost">>
  /\ \E h \in Range(tasks[1].hits) : h.rootId = "unity"
  /\ \E h \in Range(tasks[1].hits) : h.rootId = "requirements"

====
